---- MODULE Spec2Model ----
(***************************************************************************)
(* Model of the afire HTTP server engine.                                  *)
(*                                                                         *)
(*   lib/path.rs             Path::new, Path::match_path,                  *)
(*                           PathPart::from_segment                        *)
(*   lib/request.rs          Request::path_pram                            *)
(*   lib/server.rs           Server (builder calls, start,                 *)
(*                           handle_connection)                            *)
(*   lib/internal/handle.rs  handle (keep-alive connection loop),          *)
(*                           error_response                                *)
(*   lib/internal/encoding/url.rs  encode, decode                          *)
(*   lib/http/header.rs      Header, HeaderType, Headers lookups,          *)
(*                           headers_to_string                             *)
(*   lib/http/query.rs       Query lookups                                 *)
(*                                                                         *)
(* Strings are sequences of one-character strings, so that splitting on    *)
(* '/' and the prefix/suffix tests are computed as the code computes them. *)
(***************************************************************************)
EXTENDS Integers, Sequences, FiniteSets

\* ------------------------------------------------------------------------
\* Bounds
\* ------------------------------------------------------------------------
MaxPatSegs == 3
MaxPathSegs == 3
MaxRoutes == 2
MaxMiddleware == 2
MaxRequests == 2

\* ------------------------------------------------------------------------
\* Strings
\* ------------------------------------------------------------------------
SLASH == "/"

\* segs[1] "/" segs[2] "/" ... : the inverse of a split on '/'
RECURSIVE JoinSlash(_)
JoinSlash(segs) ==
    IF Len(segs) = 0 THEN <<>>
    ELSE IF Len(segs) = 1 THEN segs[1]
    ELSE segs[1] \o <<SLASH>> \o JoinSlash(Tail(segs))

SeqsUpTo(S, n) == UNION { [1..k -> S] : k \in 1..n }

starts_with(s, c) == Len(s) > 0 /\ s[1] = c
ends_with(s, c) == Len(s) > 0 /\ s[Len(s)] = c

\* str::split('/'): always at least one segment, empty segments kept
RECURSIVE Split(_)
Split(s) ==
    IF \A i \in 1..Len(s) : s[i] # SLASH THEN << s >>
    ELSE LET i == CHOOSE k \in 1..Len(s) :
                      s[k] = SLASH /\ \A j \in 1..(k-1) : s[j] # SLASH
         IN  << SubSeq(s, 1, i-1) >> \o Split(SubSeq(s, i+1, Len(s)))

\* Option<T>
None == [some |-> FALSE, val |-> <<>>]
Some(v) == [some |-> TRUE, val |-> v]

\* ------------------------------------------------------------------------
\* lib/path.rs
\* ------------------------------------------------------------------------
Normal(seg) == [kind |-> "Normal", val |-> seg]
Pram(name) == [kind |-> "Pram", val |-> name]
Any == [kind |-> "Any", val |-> <<>>]

\* a compilation that knows literal segments only
from_segment_literal(seg) == Normal(seg)

\* PathPart::from_segment
from_segment(seg) ==
    IF seg = <<"*">> THEN Any
    ELSE IF starts_with(seg, "{") /\ ends_with(seg, "}")
         THEN Pram(SubSeq(seg, 2, Len(seg) - 1))
         ELSE Normal(seg)

\* Path::new; the two cargo features are parameters
PathNew(path, patterns, ignore_slash) ==
    LET p1 == IF ignore_slash /\ ends_with(path, SLASH)
              THEN SubSeq(path, 1, Len(path) - 1) ELSE path
        p2 == IF ~starts_with(p1, SLASH) THEN <<SLASH>> \o p1 ELSE p1
        segs == Split(p2)
    IN  [raw |-> p2,
         parts |-> [i \in 1..Len(segs) |->
                      IF patterns THEN from_segment(segs[i])
                                  ELSE Normal(segs[i])]]

\* the count test of match_path
CountDiffersNoCheck(self, segs) == FALSE
CountDiffers(self, segs) == Len(segs) # Len(self.parts)

\* Path::match_path with feature path_patterns
match_path_patterns(self, path) ==
    LET segs == Split(path)
        n == Len(self.parts)
    IN  IF CountDiffers(self, segs) THEN None
        ELSE IF \E i \in 1..n : /\ i <= Len(segs)
                                /\ self.parts[i].kind = "Normal"
                                /\ self.parts[i].val # segs[i]
             THEN None
             ELSE LET m == IF Len(segs) < n THEN Len(segs) ELSE n
                      idx == SelectSeq([i \in 1..m |-> i],
                                       LAMBDA i : self.parts[i].kind = "Pram")
                  IN  Some([k \in 1..Len(idx) |->
                              << self.parts[idx[k]].val, segs[idx[k]] >>])

\* Path::match_path without feature path_patterns
match_path_plain(self, path) ==
    IF self.raw = path THEN Some(<<>>) ELSE None

match_path(self, path, patterns) ==
    IF patterns THEN match_path_patterns(self, path)
                ELSE match_path_plain(self, path)

\* ------------------------------------------------------------------------
\* lib/request.rs
\* ------------------------------------------------------------------------
\* Request::path_pram: the value of the first capture with that name
path_pram(params, name) ==
    IF \E i \in 1..Len(params) : params[i][1] = name
    THEN LET i == CHOOSE k \in 1..Len(params) :
                      /\ params[k][1] = name
                      /\ \A j \in 1..(k-1) : params[j][1] # name
         IN  Some(params[i][2])
    ELSE None

\* ------------------------------------------------------------------------
\* Path strings used by the routing examples
\* ------------------------------------------------------------------------
sStar == <<"*">>
sRoot == <<"/">>
sGreetPat == <<"/","g","r","e","e","t","/","{","n","a","m","e","}">>
sFilesPat == <<"/","f","i","l","e","s","/","*">>
sGreet == <<"/","g","r","e","e","t">>
sGreetSam == <<"/","g","r","e","e","t","/","S","a","m">>
sGreetSamExtra == <<"/","g","r","e","e","t","/","S","a","m","/","e","x","t","r","a">>
sFilesA == <<"/","f","i","l","e","s","/","a">>
sFilesABC == <<"/","f","i","l","e","s","/","a","/","b","/","c">>
sName == <<"n","a","m","e">>
sSam == <<"S","a","m">>

\* segments the generated patterns and request paths are joined from
PatSegs == { <<>>, <<"a">>, <<"*">>, <<"{","n","}">> }
PathSegs == { <<>>, <<"a">>, <<"b">> }

PatStrings ==
    { JoinSlash(ss) : ss \in SeqsUpTo(PatSegs, MaxPatSegs) }
        \cup { sStar, sRoot, sGreetPat, sFilesPat }
PathStrings ==
    { JoinSlash(ss) : ss \in SeqsUpTo(PathSegs, MaxPathSegs) }
        \cup { sRoot, sGreet, sGreetSam, sGreetSamExtra, sFilesA, sFilesABC }

\* substring test, String::contains
Contains(b, m) ==
    \E i \in 0..(Len(b) - Len(m)) : SubSeq(b, i + 1, i + Len(m)) = m

\* ------------------------------------------------------------------------
\* Requests and responses
\*
\* A response body is a sequence of characters in which a literal text of
\* the source stands as one element ("Cannot ") and every inserted value is
\* spelled out character by character.
\* ------------------------------------------------------------------------
RouteMethods == { "GET", "ANY" }
ReqMethods == { "GET", "POST" }
RoutePaths == { sStar, sRoot, sGreetPat }
ReqPaths == { sRoot, sGreetSam, sFilesABC }

sBoom == <<"b","o","o","m">>
PanicMessages == { sBoom, <<"x">> }
\* the type of the value a panic carries: panic!("lit") carries a &str,
\* panic!("{}", v) a String, panic_any(v) anything else
PayloadKinds == { "str", "String", "other" }

NoReq == [method |-> "", path |-> <<>>, path_params |-> <<>>]
Request(m, p) == [method |-> m, path |-> p, path_params |-> <<>>]

Origin(who, id, req, msg) == [who |-> who, id |-> id, req |-> req, msg |-> msg]
Response(status, body, by) == [status |-> status, body |-> body, by |-> by]
NoResponse == Response(0, <<>>, Origin("", 0, NoReq, <<>>))

\* what the closure of route h returns for req
HandlerResponse(h, req) ==
    Response(200, <<"route ">>, Origin("route", h, req, <<>>))
\* what middleware closure k returns when it answers req
MiddlewareResponse(k, req) ==
    Response(200, <<"middleware ">>, Origin("middleware", k, req, <<>>))
\* what the k-th installed error handler returns for (req, err)
CustomErrorResponse(k, req, err) ==
    Response(500, <<"custom error ">> \o err,
             Origin("error_handler", k, req, err))

\* the errors of lib/error.rs
ParseErrors == { "NoSeparator", "NoMethod", "NoPath", "NoVersion",
                 "NoRequestLine", "InvalidQuery", "InvalidHeader",
                 "InvalidMethod" }
Error(type, v) == [type |-> type, v |-> v]
\* the errors Request::from_socket hands to handle
ReadErrors ==
    { Error("Parse", e) : e \in ParseErrors }
        \cup { Error("Stream", "UnexpectedEof"), Error("Io", "io error") }

NoError == Error("", "")
\* one iteration of the loop: the parsed request, what the handler did, and
\* the responses written to the socket for it (writes), each with its writer
NoCur == [req |-> NoReq, connection |-> "",
          keep_alive |-> FALSE, err |-> NoError, matched |-> FALSE,
          invoked |-> <<>>, out |-> [result |-> "", sent |-> FALSE,
                                      guaranteed |-> FALSE, flag |-> "None"],
          flag |-> "None", res |-> NoResponse, writes |-> <<>>,
          pwrites |-> <<>>]

\* task: the deferred task of the last GuaranteedSend handler; arrived: the
\* threads waiting at the socket's barrier
NoConn == [pc |-> "idle", n |-> 0, log |-> <<>>, cur |-> NoCur,
           task |-> "none", arrived |-> 0]

\* what happened on the socket, in order; n is the request's ordinal
Event(ev, n) == [ev |-> ev, n |-> n]
Write(who, status) == [who |-> who, status |-> status]

VARIABLES
    path_patterns,              \* cargo feature "path_patterns"
    ignore_trailing_path_slash, \* cargo feature "ignore_trailing_path_slash"
    pm,                         \* one compile-and-match experiment
    call,                       \* one call of a library function
    routes,                     \* Server.routes
    middleware,                 \* Server.middleware
    error_handler,              \* Server.error_handler (0: the default)
    keep_alive,                 \* Server.keep_alive
    settings,                   \* Server.default_headers, buff_size, socket_timeout
    run,                        \* "config", then the serving loop entered
    cycle,                      \* the last handle_connection call of start
    conn                        \* the connection owned by handle

\* the fields Server::new gives the settings: the Server header, a buffer
\* of 1024 bytes, no socket timeout (0)
sServer == << "S", "e", "r", "v", "e", "r" >>
sXa == << "X", "-", "a" >>
ServerNew == [default_headers |-> << sServer >>, buff_size |-> 1024,
              socket_timeout |-> 0]

pvars == << path_patterns, ignore_trailing_path_slash, pm, call >>
cfgvars == << routes, middleware, error_handler, keep_alive, settings >>
vars == << path_patterns, ignore_trailing_path_slash, pm, call,
           routes, middleware, error_handler, keep_alive, settings,
           run, cycle, conn >>

\* read: how the read of the request ended; mwOut, panic: what the closures
\* did in this call; mw, invoked, errcall: the closures called, in order
NoCycle == [done |-> FALSE, read |-> "", req |-> NoReq, mwOut |-> <<>>,
            mw |-> <<>>, invoked |-> <<>>, errcall |-> <<>>,
            res |-> NoResponse, panic |-> None, pwrites |-> <<>>,
            unwound |-> FALSE]
NoPm == [pc |-> "off"]
NoCall == [pc |-> "off"]

\* ------------------------------------------------------------------------
\* Path matching on its own: compile a route path, match a request path
\* ------------------------------------------------------------------------
PathInit ==
    /\ path_patterns \in BOOLEAN
    /\ ignore_trailing_path_slash \in BOOLEAN
    /\ \E p \in PatStrings, q \in PathStrings :
          pm = [pc |-> "new", pattern |-> p, path |-> q,
                compiled |-> [raw |-> <<>>, parts |-> <<>>],
                result |-> None]
    /\ call = NoCall
    /\ routes = <<>> /\ middleware = <<>> /\ error_handler = 0
    /\ keep_alive = TRUE /\ settings = ServerNew /\ run = "config"
    /\ cycle = NoCycle /\ conn = NoConn

\* Route::new -> Path::new
Compile ==
    /\ pm.pc = "new"
    /\ pm' = [pm EXCEPT !.pc = "compiled",
                        !.compiled = PathNew(pm.pattern, path_patterns,
                                             ignore_trailing_path_slash)]
    /\ UNCHANGED << path_patterns, ignore_trailing_path_slash, call,
                    cfgvars, run, cycle, conn >>

\* route.path.match_path(req.path.clone())
Match ==
    /\ pm.pc = "compiled"
    /\ pm' = [pm EXCEPT !.pc = "matched",
                        !.result = match_path(pm.compiled, pm.path,
                                              path_patterns)]
    /\ UNCHANGED << path_patterns, ignore_trailing_path_slash, call,
                    cfgvars, run, cycle, conn >>

PathNext == Compile \/ Match

SpecPath == PathInit /\ [][PathNext]_vars

\* ------------------------------------------------------------------------
\* lib/server.rs: configuration
\* The served build has path_patterns and panic_handler enabled and
\* ignore_trailing_path_slash disabled.
\* ------------------------------------------------------------------------
MaxErrorHandlers == 2

Init ==
    /\ path_patterns = TRUE
    /\ ignore_trailing_path_slash = FALSE
    /\ pm = NoPm
    /\ call = NoCall
    /\ routes = <<>>
    /\ middleware = <<>>
    /\ error_handler = 0
    /\ keep_alive = TRUE
    /\ settings = ServerNew
    /\ run = "config"
   
    /\ cycle = NoCycle
    /\ conn = NoConn

\* Route::new(method, path, handler); the handler is named by its position
RouteNew(method, path) ==
    [method |-> method,
     path |-> PathNew(path, path_patterns, ignore_trailing_path_slash)]

\* Server::route / route_c (any, all and all_c are route with Method::ANY)
route(method, path) ==
    /\ run = "config"
    /\ Len(routes) < MaxRoutes
    /\ routes' = Append(routes, RouteNew(method, path))
    /\ UNCHANGED << pvars, middleware, error_handler, keep_alive, settings,
                    run, cycle, conn >>

\* Server::middleware; the closure is named by its position
AttachMiddleware ==
    /\ run = "config"
    /\ Len(middleware) < MaxMiddleware
    /\ middleware' = Append(middleware, Len(middleware) + 1)
    /\ UNCHANGED << pvars, routes, error_handler, keep_alive, settings,
                    run, cycle, conn >>

\* Server::error_handler / error_handler_c; the k-th installed handler is k
SetErrorHandler(k) == k

InstallErrorHandler ==
    /\ run = "config"
    /\ \E k \in 1..MaxErrorHandlers :
          /\ k # error_handler
          /\ error_handler' = SetErrorHandler(k)
    /\ UNCHANGED << pvars, routes, middleware, keep_alive, settings,
                    run, cycle, conn >>

MaxDefaultHeaders == 2

\* Server::buffer, Server::default_header, Server::socket_timeout
Configure ==
    /\ run = "config"
    /\ \/ /\ settings.buff_size = ServerNew.buff_size
          /\ settings' = [settings EXCEPT !.buff_size = 4]
       \/ /\ Len(settings.default_headers) < MaxDefaultHeaders
          /\ settings' = [settings EXCEPT !.default_headers = Append(@, sXa)]
       \/ /\ settings.socket_timeout = 0
          /\ settings' = [settings EXCEPT !.socket_timeout = 1]
    /\ UNCHANGED << pvars, routes, middleware, error_handler, keep_alive,
                    run, cycle, conn >>

\* Server::start: from here on the configuration is only read
start ==
    /\ run = "config"
    /\ run' = "start"
    /\ UNCHANGED << pvars, cfgvars, cycle, conn >>

\* ------------------------------------------------------------------------
\* lib/server.rs: handle_connection
\* ------------------------------------------------------------------------
quick_err(text, code) ==
    Response(code, << text >>, Origin("engine", 0, NoReq, <<>>))

\* .iter().rev() over the middleware and over the routes
Forward(s) == [i \in 1..Len(s) |-> i]
MiddlewareOrder(s) == [i \in 1..Len(s) |-> Len(s) + 1 - i]
RouteOrder(s) == [i \in 1..Len(s) |-> Len(s) + 1 - i]

\* the middleware loop: the closures run in order, the first Some returns
MiddlewareLoop(mwOut) ==
    LET order == MiddlewareOrder(middleware)
        hits == { p \in 1..Len(order) : mwOut[middleware[order[p]]] = "Some" }
    IN  IF hits = {} THEN [ran |-> [p \in 1..Len(order) |-> middleware[order[p]]],
                           sent |-> 0]
        ELSE LET p == CHOOSE q \in hits : \A r \in hits : q <= r
             IN  [ran |-> [q \in 1..p |-> middleware[order[q]]],
                  sent |-> middleware[order[p]]]

\* the route test of handle_connection
RouteAcceptsAnyMethod(r, req) ==
    match_path(r.path, req.path, path_patterns).some
RouteAccepts(r, req) ==
    /\ (req.method = r.method \/ r.method = "ANY")
    /\ match_path(r.path, req.path, path_patterns).some

\* the index of the route the loop stops at, 0 when it runs off the end
OldestRoute(req) == IF routes = <<>> THEN 0 ELSE 1
FirstRoute(req) ==
    LET order == RouteOrder(routes)
        hits == { p \in 1..Len(order) : RouteAccepts(routes[order[p]], req) }
    IN  IF hits = {} THEN 0
        ELSE order[CHOOSE q \in hits : \A r \in hits : q <= r]

ParamWrite(k, req) ==
    [route |-> k,
     params |-> match_path(routes[k].path, req.path, path_patterns).val]

\* the assignments a loop would make that wrote the captures of every
\* route whose path matched, up to the route it stops at
ParamWritesOnPathMatch(req) ==
    LET order == RouteOrder(routes)
        stop == IF FirstRoute(req) = 0 THEN Len(order)
                ELSE CHOOSE q \in 1..Len(order) : order[q] = FirstRoute(req)
        F[q \in 0..Len(order)] ==
            IF q = 0 THEN <<>>
            ELSE IF RouteAcceptsAnyMethod(routes[order[q]], req)
                 THEN Append(F[q - 1], ParamWrite(order[q], req))
                 ELSE F[q - 1]
    IN  F[stop]

\* the assignments to req.path_params made by the route loop, in order:
\* one, inside the `if` of the route the loop stops at
ParamWrites(req) ==
    IF FirstRoute(req) = 0 \/ ~path_patterns THEN <<>>
    ELSE << ParamWrite(FirstRoute(req), req) >>

\* the request after the assignments
WithParams(req, writes) ==
    IF writes = <<>> THEN req
    ELSE [req EXCEPT !.path_params = writes[Len(writes)].params]

\* e.downcast_ref::<&str>(): the message of a &str payload, else ""
DowncastStr(p) == IF p.payload = "str" THEN p.msg ELSE <<>>

\* the closure made by Server::new
DefaultErrorResponse(req, err) ==
    Response(500, <<"Internal Server Error :/\nError: ">> \o err,
             Origin("error_handler", 0, req, err))

\* (error_handler)(req, err)
CallDefaultHandler(req, err) == DefaultErrorResponse(req, err)
CallErrorHandler(req, err) ==
    IF error_handler = 0 THEN DefaultErrorResponse(req, err)
    ELSE CustomErrorResponse(error_handler, req, err)

NotFoundResponse(req) ==
    Response(404, <<"Cannot ">> \o << req.method >> \o <<" ">> \o req.path,
             Origin("engine", 0, NoReq, <<>>))

\* eh: what the error handler does when it is called for this panic
HandlerOutcomes ==
    { [kind |-> "ok", payload |-> "", msg |-> <<>>, eh |-> "ok"] } \cup
    { [kind |-> "panic", payload |-> k, msg |-> m, eh |-> e] :
          k \in PayloadKinds, m \in PanicMessages, e \in { "ok", "panic" } }

\* the calls of an engine that handed a panic of the error handler to the
\* error handler again
ErrorHandlerCallsRetry(req, err, eh) ==
    IF eh = "panic"
    THEN << [handler |-> error_handler, req |-> req, err |-> err],
            [handler |-> error_handler, req |-> req, err |-> <<>>] >>
    ELSE << [handler |-> error_handler, req |-> req, err |-> err] >>

\* the calls of the error handler after catch_unwind returned Err: one,
\* made outside the closure given to catch_unwind
ErrorHandlerCalls(req, err, eh) ==
    << [handler |-> error_handler, req |-> req, err |-> err] >>

handle_connection(rd, req, mwOut, hOut) ==
    IF rd = "read_err"
    THEN [NoCycle EXCEPT !.done = TRUE, !.read = rd,
                         !.res = quick_err("Error Reading Stream", 500)]
    ELSE IF rd = "non_utf8"
    THEN [NoCycle EXCEPT !.done = TRUE, !.read = rd,
              !.res = quick_err(
                  "Currently no support for non utf-8 characters...", 500)]
    ELSE
    LET ml == MiddlewareLoop(mwOut)
        k == FirstRoute(req)
        Read == [NoCycle EXCEPT !.done = TRUE, !.read = rd, !.mwOut = mwOut]
        Routed == [Read EXCEPT !.pwrites = ParamWrites(req)]
    IN  IF ml.sent # 0
        THEN [Read EXCEPT !.req = req, !.mw = ml.ran,
                          !.res = MiddlewareResponse(ml.sent, req)]
        ELSE IF k = 0
        THEN [Routed EXCEPT !.req = WithParams(req, ParamWrites(req)),
                            !.mw = ml.ran,
                            !.res = NotFoundResponse(req)]
        ELSE
        LET req2 == WithParams(req, ParamWrites(req))
        IN  IF hOut.kind = "ok"
            THEN [Routed EXCEPT !.req = req2, !.mw = ml.ran,
                                !.invoked = << k >>,
                                !.res = HandlerResponse(k, req2)]
            ELSE LET err == DowncastStr(hOut)
                 IN  [Routed EXCEPT !.req = req2,
                          !.mw = ml.ran, !.invoked = << k >>,
                          !.panic = Some(hOut),
                          !.errcall = ErrorHandlerCalls(req2, err, hOut.eh),
                          !.done = (hOut.eh # "panic"),
                          !.unwound = (hOut.eh = "panic"),
                          !.res = IF hOut.eh = "panic" THEN NoResponse
                                  ELSE CallErrorHandler(req2, err)]

\* an append that takes the server's own vector: Vec::append leaves it empty
AppendDefaultsMoved(headers, defaults) ==
    [headers |-> headers \o defaults, defaults |-> <<>>]

\* headers.append(&mut self.default_headers.clone())
AppendDefaults(headers, defaults) ==
    [headers |-> headers \o defaults, defaults |-> defaults]

\* one turn of the accept loop of Server::start
ServeConnection ==
    /\ run = "start"
    /\ ~cycle.done
    /\ \E m \in ReqMethods, p \in ReqPaths,
          mwOut \in [1..Len(middleware) -> { "None", "Some" }],
          hOut \in HandlerOutcomes :
          \* the closure made by Server::new does not panic
          /\ hOut.eh = "panic" => error_handler # 0
          /\ cycle' = handle_connection("ok", Request(m, p), mwOut, hOut)
    \* a panic of the error handler unwinds through handle_connection and
    \* Server::start
    /\ run' = IF cycle'.unwound THEN "panicked" ELSE run
    /\ UNCHANGED << pvars, cfgvars, conn >>

\* the first read of handle_connection fails, or the bytes are not UTF-8
ServeUnreadable ==
    /\ run = "start"
    /\ ~cycle.done
    /\ \E rd \in { "read_err", "non_utf8" } :
          cycle' = handle_connection(rd, NoReq, <<>>,
                                     CHOOSE h \in HandlerOutcomes : TRUE)
    /\ UNCHANGED << pvars, cfgvars, run, conn >>

\* the response is written and flushed, whatever write_all returned; the
\* loop body ends, the stream and the response are dropped and the listener
\* is asked for the next connection
NextConnection ==
    /\ run = "start"
    /\ cycle.done
    /\ cycle' = NoCycle
    /\ settings' = [settings EXCEPT !.default_headers =
                       AppendDefaults(<<>>, settings.default_headers).defaults]
    /\ UNCHANGED << pvars, routes, middleware, error_handler, keep_alive,
                    run, conn >>

\* listener.incoming() yields Err: `event.ok()?` returns None from start
AcceptFails ==
    /\ run = "start"
    /\ ~ cycle.done
    /\ run' = "returned"
    /\ UNCHANGED << pvars, cfgvars, cycle, conn >>

\* the response is written (the result of write_all is dropped) and the
\* flush fails: `stream.flush().ok()?` returns None from start
FlushFails ==
    /\ run = "start"
    /\ cycle.done
    /\ run' = "returned"
    /\ UNCHANGED << pvars, cfgvars, cycle, conn >>

Next ==
    \/ \E m \in RouteMethods, p \in RoutePaths : route(m, p)
    \/ AttachMiddleware
    \/ InstallErrorHandler
    \/ Configure
    \/ start
    \/ ServeConnection
    \/ ServeUnreadable
    \/ NextConnection
    \/ AcceptFails
    \/ FlushFails

Spec == Init /\ [][Next]_vars

\* ------------------------------------------------------------------------
\* lib/internal/handle.rs: the connection loop of one worker
\* ------------------------------------------------------------------------
HandleRoutePaths == { sRoot, sGreetPat }
HandleReqPaths == { sRoot, sGreetSam }
ConnectionHeaders == { "", "keep-alive", "close" }
ResponseFlags == { "None", "Close", "End" }

\* what a route handler did with its Context before it returned
ContextOutcomes ==
    [result : { "Ok" }, sent : BOOLEAN, guaranteed : BOOLEAN,
     flag : ResponseFlags]
        \cup [result : { "Err" }, sent : BOOLEAN, guaranteed : { FALSE },
              flag : { "None" }]

\* Request::keep_alive
req_keep_alive(connection) ==
    \/ connection = "keep-alive"
    \/ connection # "close"

\* Route::matches
RouteMatches(r, req) ==
    IF RouteAccepts(r, req)
    THEN match_path(r.path, req.path, path_patterns)
    ELSE None

\* error_response
error_response(e) ==
    LET by == Origin("engine", 0, NoReq, <<>>)
    IN  IF e.type = "Stream" THEN Response(400, <<"Unexpected EOF">>, by)
        ELSE IF e.type = "Parse"
        THEN Response(400,
                 << CASE e.v = "NoSeparator" -> "No separator"
                      [] e.v = "NoMethod" -> "No method"
                      [] e.v = "NoPath" -> "No path"
                      [] e.v = "NoVersion" -> "No HTTP version"
                      [] e.v = "NoRequestLine" -> "No request line"
                      [] e.v = "InvalidQuery" -> "Invalid query"
                      [] e.v = "InvalidHeader" -> "Invalid header"
                      [] e.v = "InvalidMethod" -> "Invalid method" >>, by)
        ELSE IF e.type = "Io" THEN Response(500, << e.v >>, by)
        ELSE IF e.type = "Handle"
        THEN IF e.v.kind = "NotFound" THEN NotFoundResponse(e.v)
             ELSE CallErrorHandler(e.v.req, e.v.msg)
        ELSE Response(0, <<"unreachable">>, by)

\* .iter().rev() over the routes in handle
HandleRouteOrder(s) == [i \in 1..Len(s) |-> Len(s) + 1 - i]

FirstMatch(req) ==
    LET order == HandleRouteOrder(routes)
        hits == { p \in 1..Len(order) : RouteMatches(routes[order[p]], req).some }
    IN  IF hits = {} THEN 0
        ELSE order[CHOOSE q \in hits : \A r \in hits : q <= r]

\* the two tests that end an iteration of the loop
LoopExitIgnoreServer(flag, ka, server_ka) ==
    IF flag = "End" THEN "end"
    ELSE IF ~ka \/ flag = "Close" THEN "close"
    ELSE "loop"
LoopExitIgnoreRequest(flag, ka, server_ka) ==
    IF flag = "End" THEN "end"
    ELSE IF flag = "Close" \/ ~server_ka THEN "close"
    ELSE "loop"
LoopExit(flag, ka, server_ka) ==
    IF flag = "End" THEN "end"
    ELSE IF ~ka \/ flag = "Close" \/ ~server_ka THEN "close"
    ELSE "loop"

\* the end of an iteration, from `if flag == ResponseFlag::End` on
EndOfIteration(c) ==
    LET x == LoopExit(c.cur.flag, c.cur.keep_alive, keep_alive)
    IN  IF x = "end" THEN [c EXCEPT !.pc = "ended"]
        ELSE IF x = "close"
        THEN [c EXCEPT !.pc = "closed",
                       !.log = Append(c.log, Event("shutdown", c.n))]
        ELSE [c EXCEPT !.pc = "loop"]

\* Response::write by the connection thread
ConnWrite(c, res) ==
    [c EXCEPT !.cur.res = res,
              !.cur.writes = Append(c.cur.writes, Write("conn", res.status)),
              !.log = Append(c.log, Event("write", c.n))]

\* a write to the socket by the handler or by its deferred task
OtherWrite(c, who) ==
    [c EXCEPT !.cur.writes = Append(c.cur.writes, Write(who, 200)),
              !.log = Append(c.log, Event("write", c.n))]

\* Request::from_socket: the n-th read on this socket
Read(c, cur) ==
    [c EXCEPT !.n = c.n + 1, !.cur = cur,
              !.log = Append(c.log, Event("read", c.n + 1))]

\* Request::from_socket failed: answer with error_response and return
HandleErrorRetry(c, e) ==
    [ConnWrite(Read(c, [NoCur EXCEPT !.err = e]), error_response(e))
        EXCEPT !.pc = "loop"]
HandleError(c, e) ==
    [ConnWrite(Read(c, [NoCur EXCEPT !.err = e]), error_response(e))
        EXCEPT !.pc = "returned"]

\* one iteration of the loop for a parsed request, up to the barrier wait
HandleIteration(c, req, connection, out) ==
    LET ka == req_keep_alive(connection)
        k == FirstMatch(req)
        c0 == Read(c, [NoCur EXCEPT !.req = req, !.connection = connection,
                                    !.keep_alive = ka])
    IN  IF k = 0
        THEN EndOfIteration(ConnWrite(c0, NotFoundResponse(req)))
        ELSE
        LET req2 == [req EXCEPT !.path_params = RouteMatches(routes[k], req).val]
            c1 == [c0 EXCEPT !.cur.req = req2, !.cur.matched = TRUE,
                             !.cur.pwrites =
                                 << [route |-> k, params |-> req2.path_params] >>,
                             !.cur.invoked = << k >>, !.cur.out = out]
            \* with GuaranteedSend declared, a response already sent when
            \* the handler returns is the deferred task's
            c2 == IF out.sent /\ out.guaranteed
                  THEN [OtherWrite(c1, "deferred") EXCEPT !.task = "written"]
                  ELSE IF out.sent THEN OtherWrite(c1, "handler")
                  ELSE c1
        IN  IF out.result = "Err"
            THEN [c2 EXCEPT !.pc = "panicked"]
            ELSE
            LET c3 == [c2 EXCEPT !.cur.flag = out.flag]
            IN  IF out.sent THEN EndOfIteration(c3)
                ELSE IF out.guaranteed
                THEN [c3 EXCEPT !.pc = "barrier", !.arrived = 1,
                                !.task = "spawned"]
                ELSE EndOfIteration(
                       ConnWrite(c3, Response(501, <<"No response was sent">>,
                                     Origin("engine", 0, NoReq, <<>>))))

HandleInit ==
    /\ path_patterns = TRUE
    /\ ignore_trailing_path_slash = FALSE
    /\ pm = NoPm
    /\ call = NoCall
    /\ routes = <<>>
    /\ middleware = <<>>
    /\ error_handler = 0
    /\ keep_alive \in BOOLEAN
    /\ settings = ServerNew
    /\ run = "config"
    /\ cycle = NoCycle
    /\ conn = NoConn

\* Server::start_threaded: the workers call handle on accepted streams
start_threaded ==
    /\ run = "config"
    /\ run' = "threaded"
    /\ UNCHANGED << pvars, cfgvars, cycle, conn >>

\* handle is entered with a fresh stream
Accept ==
    /\ run = "threaded"
    /\ conn.pc \in { "idle", "ended", "closed", "returned" }
    /\ conn' = [NoConn EXCEPT !.pc = "await"]
    /\ UNCHANGED << pvars, cfgvars, run, cycle >>

HandleRequest ==
    /\ run = "threaded"
    /\ conn.pc = "await"
    /\ conn.n < MaxRequests
    /\ \E m \in ReqMethods, p \in HandleReqPaths,
          h \in ConnectionHeaders, out \in ContextOutcomes :
          conn' = HandleIteration(conn, Request(m, p), h, out)
    /\ UNCHANGED << pvars, cfgvars, run, cycle >>

\* the bottom of the loop body: req, ctx, flag and matched go out of scope
\* and the loop turns to the next Request::from_socket
NextIteration ==
    /\ run = "threaded"
    /\ conn.pc = "loop"
    /\ conn' = [conn EXCEPT !.pc = "await", !.cur = NoCur]
    /\ UNCHANGED << pvars, cfgvars, run, cycle >>

HandleBadRequest ==
    /\ run = "threaded"
    /\ conn.pc = "await"
    /\ \E e \in ReadErrors : conn' = HandleError(conn, e)
    /\ UNCHANGED << pvars, cfgvars, run, cycle >>

\* std::sync::Barrier::new(2): wait() returns once both threads have arrived
BarrierPassedAlone(arrived) == arrived >= 1
BarrierPassed(arrived) == arrived = 2

\* the deferred task of a GuaranteedSend handler writes the response and
\* arrives at the barrier where the connection thread waits
DeferredSend ==
    /\ run = "threaded"
    /\ conn.pc = "barrier"
    /\ conn.task = "spawned"
    /\ conn' = [OtherWrite(conn, "deferred") EXCEPT
                   !.task = "waiting", !.arrived = conn.arrived + 1]
    /\ UNCHANGED << pvars, cfgvars, run, cycle >>

\* the deferred task had written before the handler returned; it arrives at
\* the barrier
DeferredArrive ==
    /\ run = "threaded"
    /\ conn.task = "written"
    /\ conn' = [conn EXCEPT !.task = "waiting",
                            !.arrived = conn.arrived + 1]
    /\ UNCHANGED << pvars, cfgvars, run, cycle >>

\* barrier.wait() returns on the connection thread, which goes on to the
\* end of the iteration
BarrierWait ==
    /\ run = "threaded"
    /\ conn.pc = "barrier"
    /\ BarrierPassed(conn.arrived)
    /\ conn' = EndOfIteration([conn EXCEPT !.task = "done", !.arrived = 0])
    /\ UNCHANGED << pvars, cfgvars, run, cycle >>

HandleNext ==
    \/ \E m \in RouteMethods, p \in HandleRoutePaths : route(m, p)
    \/ start_threaded
    \/ Accept
    \/ HandleRequest
    \/ NextIteration
    \/ HandleBadRequest
    \/ DeferredSend
    \/ DeferredArrive
    \/ BarrierWait

SpecHandle == HandleInit /\ [][HandleNext]_vars

\* the connection thread and the deferred task keep running, and a read
\* that no request ends comes back with an error, a timeout or EOF
HandleFairness ==
    /\ WF_vars(HandleBadRequest) /\ WF_vars(NextIteration)
    /\ WF_vars(DeferredSend) /\ WF_vars(DeferredArrive)
    /\ WF_vars(BarrierWait)

SpecHandleLive == SpecHandle /\ HandleFairness

\* ------------------------------------------------------------------------
\* lib/internal/encoding/url.rs
\* A char is its code point; a string is a sequence of chars.
\* ------------------------------------------------------------------------
MaxUrlLen == 3

Upper == 65..90
Lower == 97..122
Digit == 48..57
cPercent == 37
cPlus == 43
cSpace == 32

ALLOWED_CHARS_AND_PLUS ==
    Upper \cup Lower \cup Digit \cup { cPlus, 45, 46, 95, 126 }
ALLOWED_CHARS == Upper \cup Lower \cup Digit \cup { 45, 46, 95, 126 }

\* i as u8: the low eight bits of the code point
as_u8(c) == c % 256

\* one digit of {:02X}
HexDigitLower(n) == IF n < 10 THEN 48 + n ELSE 97 + (n - 10)
HexDigit(n) == IF n < 10 THEN 48 + n ELSE 65 + (n - 10)

\* format!("%{:02X}", v)
PercentEscape(v) == << cPercent, HexDigit(v \div 16), HexDigit(v % 16) >>

RECURSIVE encode(_)
encode(url) ==
    IF url = <<>> THEN <<>>
    ELSE LET i == Head(url)
         IN  IF i < 128 /\ as_u8(i) \in ALLOWED_CHARS
             THEN << i >> \o encode(Tail(url))
             ELSE PercentEscape(as_u8(i)) \o encode(Tail(url))

\* char::to_digit(16): -1 when the char is no digit of the radix
to_digit(c) ==
    IF c \in Digit THEN c - 48
    ELSE IF c \in 65..70 THEN c - 55
    ELSE IF c \in 97..102 THEN c - 87
    ELSE -1

\* u8::from_str_radix(hex, 16) for a two-char string: an optional leading
\* '+' sign, then digits; Err is -1
from_str_radix(hex) ==
    LET digits == IF hex[1] = cPlus THEN Tail(hex) ELSE hex
    IN  IF \E k \in 1..Len(digits) : to_digit(digits[k]) < 0 THEN -1
        ELSE IF Len(digits) = 1 THEN to_digit(digits[1])
        ELSE 16 * to_digit(digits[1]) + to_digit(digits[2])

\* the while loop of decode; None as soon as a `?` fails
RECURSIVE decode_from(_, _)
decode_from(chars, out) ==
    IF chars = <<>> THEN Some(out)
    ELSE LET i == Head(chars)
             rest == Tail(chars)
         IN  IF i = cPlus THEN decode_from(rest, Append(out, cSpace))
             ELSE IF i = cPercent
             THEN IF Len(rest) < 2 THEN None
                  ELSE LET v == from_str_radix(SubSeq(rest, 1, 2))
                       IN  IF v < 0 THEN None
                           ELSE decode_from(SubSeq(rest, 3, Len(rest)),
                                            Append(out, v))
             ELSE decode_from(rest, Append(out, i))

decode(url) == decode_from(url, <<>>)

\* 'A' 'f' '2' '~' ' ' '+' '%' 'G', U+00E9, U+012D
UrlChars == { 65, 102, 50, 126, cSpace, cPlus, cPercent, 71, 233, 301 }
UrlStrings == SeqsUpTo(UrlChars, MaxUrlLen)

UrlInit ==
    /\ path_patterns = TRUE
    /\ ignore_trailing_path_slash = FALSE
    /\ pm = NoPm
    /\ \E s \in UrlStrings :
          call = [pc |-> "url", input |-> s, encoded |-> <<>>,
                  decoded |-> None]
    /\ routes = <<>> /\ middleware = <<>> /\ error_handler = 0
    /\ keep_alive = TRUE /\ settings = ServerNew /\ run = "config"
    /\ cycle = NoCycle /\ conn = NoConn

UrlUnchanged ==
    UNCHANGED << path_patterns, ignore_trailing_path_slash, pm,
                 cfgvars, run, cycle, conn >>

\* encode(input)
UrlEncode ==
    /\ call.pc = "url"
    /\ call' = [call EXCEPT !.pc = "encoded", !.encoded = encode(call.input)]
    /\ UrlUnchanged

\* decode(encode(input))
UrlDecodeEncoded ==
    /\ call.pc = "encoded"
    /\ call' = [call EXCEPT !.pc = "round", !.decoded = decode(call.encoded)]
    /\ UrlUnchanged

\* decode(input)
UrlDecode ==
    /\ call.pc = "url"
    /\ call' = [call EXCEPT !.pc = "decoded", !.decoded = decode(call.input)]
    /\ UrlUnchanged

UrlNext == UrlEncode \/ UrlDecodeEncoded \/ UrlDecode

SpecUrl == UrlInit /\ [][UrlNext]_vars

\* ------------------------------------------------------------------------
\* lib/internal/handle.rs: error_response on its own
\* ------------------------------------------------------------------------
IoTexts == { "io error", "broken pipe" }

\* HandleError::NotFound(method, path)
NotFound(method, path) ==
    Error("Handle", [kind |-> "NotFound", method |-> method, path |-> path])
\* HandleError::Panic(req, msg)
Panic(req, msg) ==
    Error("Handle", [kind |-> "Panic", req |-> req, msg |-> msg])

ErrInit ==
    /\ path_patterns = TRUE
    /\ ignore_trailing_path_slash = FALSE
    /\ pm = NoPm
    /\ \/ \E e \in ReadErrors \cup { Error("Io", t) : t \in IoTexts } :
             call = [pc |-> "err", err |-> e, res |-> NoResponse]
       \/ \E m \in ReqMethods, q \in ReqPaths :
             call = [pc |-> "err", err |-> NotFound(m, q),
                     res |-> NoResponse]
       \/ \E m \in ReqMethods, q \in ReqPaths, t \in PanicMessages :
             call = [pc |-> "err", err |-> Panic(Request(m, q), t),
                     res |-> NoResponse]
    /\ routes = <<>> /\ middleware = <<>>
    /\ error_handler \in 0..MaxErrorHandlers
    /\ keep_alive = TRUE /\ settings = ServerNew /\ run = "config"
    /\ cycle = NoCycle /\ conn = NoConn

\* error_response(&err, server)
ErrorResponse ==
    /\ call.pc = "err"
    /\ call' = [call EXCEPT !.pc = "responded",
                            !.res = error_response(call.err)]
    /\ UNCHANGED << path_patterns, ignore_trailing_path_slash, pm,
                    cfgvars, run, cycle, conn >>

ErrNext == ErrorResponse

SpecErr == ErrInit /\ [][ErrNext]_vars

\* ------------------------------------------------------------------------
\* lib/http/header.rs
\* ------------------------------------------------------------------------
MaxHeaders == 2

UpperChars ==
    << "A", "B", "C", "D", "E", "F", "G", "H", "I", "J", "K", "L", "M",
       "N", "O", "P", "Q", "R", "S", "T", "U", "V", "W", "X", "Y", "Z" >>
LowerChars ==
    << "a", "b", "c", "d", "e", "f", "g", "h", "i", "j", "k", "l", "m",
       "n", "o", "p", "q", "r", "s", "t", "u", "v", "w", "x", "y", "z" >>

\* str::to_ascii_lowercase
to_ascii_lowercase(s) ==
    [i \in 1..Len(s) |->
        IF \E k \in 1..26 : UpperChars[k] = s[i]
        THEN LowerChars[CHOOSE k \in 1..26 : UpperChars[k] = s[i]]
        ELSE s[i]]

\* the variants of HeaderType other than Custom, by their Display text
HeaderTypeNames == <<
    << "A", "c", "c", "e", "p", "t" >>,
    << "A", "c", "c", "e", "p", "t", "-", "C", "h", "a", "r", "s", "e", "t"
    >>,
    << "A", "c", "c", "e", "p", "t", "-", "E", "n", "c", "o", "d", "i", "n",
    "g" >>,
    << "A", "c", "c", "e", "p", "t", "-", "L", "a", "n", "g", "u", "a", "g",
    "e" >>,
    << "C", "o", "n", "n", "e", "c", "t", "i", "o", "n" >>,
    << "C", "o", "n", "t", "e", "n", "t", "-", "E", "n", "c", "o", "d", "i",
    "n", "g" >>,
    << "C", "o", "n", "t", "e", "n", "t", "-", "L", "e", "n", "g", "t", "h"
    >>,
    << "C", "o", "n", "t", "e", "n", "t", "-", "T", "y", "p", "e" >>,
    << "C", "o", "o", "k", "i", "e" >>,
    << "D", "a", "t", "e" >>,
    << "H", "o", "s", "t" >>,
    << "L", "o", "c", "a", "t", "i", "o", "n" >>,
    << "R", "e", "f", "e", "r", "e", "r" >>,
    << "S", "e", "r", "v", "e", "r" >>,
    << "S", "e", "t", "-", "C", "o", "o", "k", "i", "e" >>,
    << "T", "r", "a", "n", "s", "f", "e", "r", "-", "E", "n", "c", "o", "d",
    "i", "n", "g" >>,
    << "U", "p", "g", "r", "a", "d", "e" >>,
    << "U", "s", "e", "r", "-", "A", "g", "e", "n", "t" >>,
    << "V", "i", "a" >>,
    << "X", "-", "F", "o", "r", "w", "a", "r", "d", "e", "d", "-", "F", "o",
    "r" >> >>

\* HeaderType::from_str: the variant is named by its position in
\* HeaderTypeNames, 0 is Custom(s)
from_str(s) ==
    LET l == to_ascii_lowercase(s)
        hits == { k \in 1..Len(HeaderTypeNames) :
                      to_ascii_lowercase(HeaderTypeNames[k]) = l }
    IN  IF hits = {} THEN [variant |-> 0, custom |-> s]
        ELSE [variant |-> CHOOSE k \in hits : TRUE, custom |-> <<>>]

\* impl Display for HeaderType
HeaderTypeDisplay(t) ==
    IF t.variant = 0 THEN t.custom ELSE HeaderTypeNames[t.variant]

\* Header::new(name, value)
Header(name, value) == [name |-> from_str(name), value |-> value]

\* impl Display for Header
HeaderToString(h) == HeaderTypeDisplay(h.name) \o << ":", " " >> \o h.value

\* the position of the first header whose name equals name.into(), 0 if none
HeadersFind(headers, name) ==
    LET n == from_str(name)
        hits == { i \in 1..Len(headers) : headers[i].name = n }
    IN  IF hits = {} THEN 0 ELSE CHOOSE i \in hits : \A j \in hits : i <= j

\* Headers::has
HeadersHas(headers, name) ==
    \E i \in 1..Len(headers) : headers[i].name = from_str(name)
\* Headers::get
HeadersGet(headers, name) ==
    IF HeadersFind(headers, name) = 0 THEN None
    ELSE Some(headers[HeadersFind(headers, name)].value)
\* Headers::get_header
HeadersGetHeader(headers, name) ==
    IF HeadersFind(headers, name) = 0 THEN None
    ELSE Some(headers[HeadersFind(headers, name)])

\* Request::header over headers whose names are plain strings
RequestHeader(raw, name) ==
    LET n == to_ascii_lowercase(name)
        hits == { i \in 1..Len(raw) : n = to_ascii_lowercase(raw[i].name) }
    IN  IF hits = {} THEN None
        ELSE Some(raw[CHOOSE i \in hits : \A j \in hits : i <= j].value)

\* header lookups on their own: a header list is built with Header::new,
\* then looked up by name
\* a parser that keeps the whitespace around the name and the value
keep_whitespace(s) == s

\* str::trim
RECURSIVE trim(_)
trim(s) ==
    IF s = <<>> THEN s
    ELSE IF Head(s) = " " THEN trim(Tail(s))
    ELSE IF s[Len(s)] = " " THEN trim(SubSeq(s, 1, Len(s) - 1))
    ELSE s

ColonsOf(s) == { k \in 1..Len(s) : s[k] = ":" }

\* where a split at the last ':' would cut
LastColon(s) == CHOOSE k \in ColonsOf(s) : \A j \in ColonsOf(s) : j <= k

\* where header.splitn(2, ':') cuts
FirstColon(s) == CHOOSE k \in ColonsOf(s) : \A j \in ColonsOf(s) : k <= j

NoHeader == [name |-> [variant |-> 0, custom |-> <<>>], value |-> <<>>]

\* Header::from_string
from_string(header) ==
    IF ColonsOf(header) = {}
    THEN [err |-> Error("Parse", "InvalidHeader"), header |-> NoHeader]
    ELSE LET k == FirstColon(header)
         IN  [err |-> NoError,
              header |-> [name |-> from_str(trim(SubSeq(header, 1, k - 1))),
                          value |-> trim(SubSeq(header, k + 1, Len(header)))]]

MaxLine == 4
LineChars == { "a", ":", " " }

HeaderNames ==
    { << "V", "i", "a" >>, << "v", "i", "a" >>, << "V", "I", "A" >>,
      << "X", "-", "a" >>, << "x", "-", "a" >>, << "X", "-", "A" >> }
HeaderValues == { << "1" >>, << "2" >> }
RawHeaders ==
    { <<>> } \cup
    SeqsUpTo([name : HeaderNames, value : HeaderValues], MaxHeaders)

HeaderInit ==
    /\ path_patterns = TRUE
    /\ ignore_trailing_path_slash = FALSE
    /\ pm = NoPm
    /\ \E raw \in RawHeaders, n \in HeaderNames :
          call = [pc |-> "headers", raw |-> raw, name |-> n,
                  has |-> FALSE, get |-> None, get_header |-> None,
                  header |-> None, line |-> <<>>,
                  parsed |-> [err |-> NoError, header |-> NoHeader],
                  given |-> [name |-> <<>>, value |-> <<>>],
                  original |-> NoHeader]
    /\ routes = <<>> /\ middleware = <<>> /\ error_handler = 0
    /\ keep_alive = TRUE /\ settings = ServerNew /\ run = "config"
    /\ cycle = NoCycle /\ conn = NoConn

HeaderLookup ==
    /\ call.pc = "headers"
    /\ LET headers == [i \in 1..Len(call.raw) |->
                          Header(call.raw[i].name, call.raw[i].value)]
       IN  call' = [call EXCEPT
                      !.pc = "looked",
                      !.has = HeadersHas(headers, call.name),
                      !.get = HeadersGet(headers, call.name),
                      !.get_header = HeadersGetHeader(headers, call.name),
                      !.header = RequestHeader(call.raw, call.name)]
    /\ UNCHANGED << path_patterns, ignore_trailing_path_slash, pm,
                    cfgvars, run, cycle, conn >>

\* Header::from_string(line)
HeaderFromString ==
    /\ call.pc = "headers"
    /\ call.raw = <<>>
    /\ \E l \in SeqsUpTo(LineChars, MaxLine) :
          call' = [call EXCEPT !.pc = "parsed", !.line = l,
                               !.parsed = from_string(l)]
    /\ UNCHANGED << path_patterns, ignore_trailing_path_slash, pm,
                    cfgvars, run, cycle, conn >>

sContentType ==
    << "C", "o", "n", "t", "e", "n", "t", "-", "T", "y", "p", "e" >>
sTextHtml == << "t", "e", "x", "t", "/", "h", "t", "m", "l" >>
RoundTripNames ==
    { sContentType, to_ascii_lowercase(sContentType),
      << "V", "I", "A" >>, << "v", "i", "a" >>, << "X", "-", "a" >>,
      <<>>, << " ", "x" >>, << "V", "i", "a", " " >>, << "a", ":", "b" >> }
RoundTripValues ==
    { sTextHtml, << "1" >>, <<>>, << "a", ":", "b" >>, << "1", " ", "2" >>,
      << " ", "1" >>, << "1", " " >> }

\* Header::from_string(Header::new(name, value).to_string())
HeaderRoundTrip ==
    /\ call.pc = "headers"
    /\ call.raw = <<>>
    /\ \E n \in RoundTripNames, v \in RoundTripValues :
          call' = [call EXCEPT
                     !.pc = "roundtrip",
                     !.given = [name |-> n, value |-> v],
                     !.original = Header(n, v),
                     !.line = HeaderToString(Header(n, v)),
                     !.parsed = from_string(HeaderToString(Header(n, v)))]
    /\ UNCHANGED << path_patterns, ignore_trailing_path_slash, pm,
                    cfgvars, run, cycle, conn >>

HeaderNext == HeaderLookup \/ HeaderFromString \/ HeaderRoundTrip

SpecHeader == HeaderInit /\ [][HeaderNext]_vars

\* ------------------------------------------------------------------------
\* lib/server.rs: the serialization of a response in Server::start
\* ------------------------------------------------------------------------
CRLF == << "\r", "\n" >>
DigitChars == << "0", "1", "2", "3", "4", "5", "6", "7", "8", "9" >>

\* to_string of an unsigned number
RECURSIVE ToString(_)
ToString(n) ==
    IF n < 10 THEN << DigitChars[n + 1] >>
    ELSE ToString(n \div 10) \o << DigitChars[(n % 10) + 1] >>

\* the standard phrase of a status
reason_phrase(status) ==
    CASE status = 200 -> << "O", "K" >>
      [] status = 404 -> << "N", "o", "t", " ", "F", "o", "u", "n", "d" >>
      [] OTHER -> << "I", "n", "t", "e", "r", "n", "a", "l", " ",
                     "S", "e", "r", "v", "e", "r", " ",
                     "E", "r", "r", "o", "r" >>

RECURSIVE HeaderLines(_)
HeaderLines(headers) ==
    IF headers = <<>> THEN <<>>
    ELSE HeaderToString(Head(headers)) \o CRLF \o HeaderLines(Tail(headers))

\* the fold, then out[..out.len() - 2]
headers_to_string_unstripped(headers) == HeaderLines(headers)
headers_to_string(headers) ==
    SubSeq(HeaderLines(headers), 1, Len(HeaderLines(headers)) - 2)

sContentLength ==
    << "C", "o", "n", "t", "e", "n", "t", "-", "L", "e", "n", "g", "t", "h" >>

\* the header vector of Server::start: the response's headers, the default
\* headers, then a pushed Content-Length
FinalHeaders(res, default_headers) ==
    res.headers \o default_headers
    \o << Header(sContentLength, ToString(Len(res.data))) >>

\* Server::start, from "Add default headers to response" to the bytes
\* handed to write_all
ResponseBytes(res, default_headers) ==
    LET headers == FinalHeaders(res, default_headers)
        reason == IF res.reason.some THEN res.reason.val
                  ELSE reason_phrase(res.status)
    IN  << "H", "T", "T", "P", "/", "1", ".", "1", " " >>
        \o ToString(res.status) \o << " " >> \o reason \o CRLF
        \o headers_to_string(headers) \o CRLF \o CRLF
        \o res.data

ServerHeader == Header(<< "S", "e", "r", "v", "e", "r" >>,
                       << "a", "f", "i", "r", "e" >>)
ResHeaderPool ==
    { Header(<< "X", "-", "a" >>, << "1" >>),
      Header(<< "v", "i", "a" >>, << "2" >>),
      Header(sContentLength, << "2" >>) }
ResBodies ==
    { <<>>, << "h", "i" >>,
      << "a", "\r", "\n", "\r", "\n", "b", "c", "d", "e", "f", "g" >> }

SerInit ==
    /\ path_patterns = TRUE
    /\ ignore_trailing_path_slash = FALSE
    /\ pm = NoPm
    /\ \E st \in { 200, 404 },
          rs \in { None, Some(<< "N", "o", "p", "e" >>) },
          hs \in { <<>> } \cup SeqsUpTo(ResHeaderPool, MaxHeaders),
          dh \in { <<>>, << ServerHeader >>,
                   << ServerHeader, Header(sContentLength, << "0" >>) >> },
          d \in ResBodies :
          call = [pc |-> "res",
                  res |-> [status |-> st, reason |-> rs, headers |-> hs,
                           data |-> d],
                  default_headers |-> dh, headers |-> <<>>,
                  response |-> <<>>]
    /\ routes = <<>> /\ middleware = <<>> /\ error_handler = 0
    /\ keep_alive = TRUE /\ settings = ServerNew /\ run = "config"
    /\ cycle = NoCycle /\ conn = NoConn

Serialize ==
    /\ call.pc = "res"
    /\ call' = [call EXCEPT
                  !.pc = "bytes",
                  !.headers = FinalHeaders(call.res, call.default_headers),
                  !.response = ResponseBytes(call.res, call.default_headers)]
    /\ UNCHANGED << path_patterns, ignore_trailing_path_slash, pm,
                    cfgvars, run, cycle, conn >>

SerNext == Serialize

SpecSer == SerInit /\ [][SerNext]_vars

\* ------------------------------------------------------------------------
\* lib/http/query.rs: a Query is the Vec of its [key, value] pairs
\* ------------------------------------------------------------------------
MaxPairs == 3

QueryKeys == { << "f", "o", "o" >>, << "F", "o", "o" >>, << "n" >> }
QueryValues == { << "1" >>, << "2" >> }

\* the position of the pair .find stops at, 0 if there is none
QueryFindLast(query, key) ==
    LET hits == { i \in 1..Len(query) : query[i][1] = key }
    IN  IF hits = {} THEN 0 ELSE CHOOSE i \in hits : \A j \in hits : i >= j
QueryFind(query, key) ==
    LET hits == { i \in 1..Len(query) : query[i][1] = key }
    IN  IF hits = {} THEN 0 ELSE CHOOSE i \in hits : \A j \in hits : i <= j

\* Query::has
QueryHas(query, key) == \E i \in 1..Len(query) : query[i][1] = key
\* Query::get, Query::get_mut
QueryGet(query, key) ==
    IF QueryFind(query, key) = 0 THEN None
    ELSE Some(query[QueryFind(query, key)][2])
\* Query::get_query, Query::get_query_mut
QueryGetQuery(query, key) ==
    IF QueryFind(query, key) = 0 THEN None
    ELSE Some(query[QueryFind(query, key)])

\* str::split(ch) over a string of code points
RECURSIVE SplitOn(_, _)
SplitOn(s, ch) ==
    IF \A i \in 1..Len(s) : s[i] # ch THEN << s >>
    ELSE LET i == CHOOSE k \in 1..Len(s) :
                      s[k] = ch /\ \A j \in 1..(k - 1) : s[j] # ch
         IN  << SubSeq(s, 1, i - 1) >> \o SplitOn(SubSeq(s, i + 1, Len(s)), ch)

\* url::decode(i).unwrap_or_else(|| i.to_owned())
decode_or_raw(i) == IF decode(i).some THEN decode(i).val ELSE i

\* the loop of Query::from_body over the parts between '&'
RECURSIVE from_body_parts(_)
from_body_parts(parts) ==
    IF parts = <<>> THEN <<>>
    ELSE LET i == Head(parts)
             eq == { k \in 1..Len(i) : i[k] = 61 }
         IN  IF eq = {} THEN from_body_parts(Tail(parts))
             ELSE LET k == CHOOSE e \in eq : \A f \in eq : e <= f
                  IN  << << decode_or_raw(SubSeq(i, 1, k - 1)),
                            decode_or_raw(SubSeq(i, k + 1, Len(i))) >> >>
                      \o from_body_parts(Tail(parts))

\* Query::from_body: it returns a Query for every body
from_body(body) ==
    [err |-> NoError, query |-> from_body_parts(SplitOn(body, 38))]

\* 'a' '=' '&' '%' '2'
BodyChars == { 97, 61, 38, cPercent, 50 }

NoLookup == [key |-> <<>>, has |-> FALSE, get |-> None, get_mut |-> None,
             get_query |-> None, get_query_mut |-> None]

QueryInit ==
    /\ path_patterns = TRUE
    /\ ignore_trailing_path_slash = FALSE
    /\ pm = NoPm
    /\ call = [pc |-> "query", query |-> <<>>, input |-> <<>>,
               looked |-> NoLookup, body |-> <<>>, parsed |-> NoError]
    /\ routes = <<>> /\ middleware = <<>> /\ error_handler = 0
    /\ keep_alive = TRUE /\ settings = ServerNew /\ run = "config"
    /\ cycle = NoCycle /\ conn = NoConn

\* Query::add / Query::add_query; input records the pairs as they were given
QueryAdd ==
    /\ call.pc = "query"
    /\ Len(call.query) < MaxPairs
    /\ \E k \in QueryKeys, v \in QueryValues :
          call' = [call EXCEPT !.query = Append(call.query, << k, v >>),
                               !.input = Append(call.input, << k, v >>),
                               !.looked = NoLookup]
    /\ UNCHANGED << path_patterns, ignore_trailing_path_slash, pm,
                    cfgvars, run, cycle, conn >>

\* has, get, get_mut, get_query and get_query_mut with one key
QueryLookup ==
    /\ call.pc = "query"
    /\ \E k \in QueryKeys :
          call' = [call EXCEPT !.looked =
                      [key |-> k,
                       has |-> QueryHas(call.query, k),
                       get |-> QueryGet(call.query, k),
                       get_mut |-> QueryGet(call.query, k),
                       get_query |-> QueryGetQuery(call.query, k),
                       get_query_mut |-> QueryGetQuery(call.query, k)]]
    /\ UNCHANGED << path_patterns, ignore_trailing_path_slash, pm,
                    cfgvars, run, cycle, conn >>

\* Query::from_body(body)
QueryFromBody ==
    /\ call.pc = "query"
    /\ call.query = <<>>
    /\ call.looked = NoLookup
    /\ \E b \in SeqsUpTo(BodyChars, MaxUrlLen) :
          call' = [call EXCEPT !.pc = "parsed", !.body = b,
                               !.query = from_body(b).query,
                               !.parsed = from_body(b).err]
    /\ UNCHANGED << path_patterns, ignore_trailing_path_slash, pm,
                    cfgvars, run, cycle, conn >>

QueryNext == QueryAdd \/ QueryLookup \/ QueryFromBody

SpecQuery == QueryInit /\ [][QueryNext]_vars

\* ------------------------------------------------------------------------
\* lib/server.rs: how handle_connection reads a request
\* The peer sends `total` bytes, the header_size bytes of the head and then
\* content_length body bytes, in segments that end at the positions `cuts`;
\* byte i of the stream has the value i, an unwritten buffer cell is 0.
\* ------------------------------------------------------------------------
MaxBody == 4
BuffSize == 4
HeadSize == 2

\* stream.read(buf) with `pos` bytes consumed so far: the bytes of the
\* segment at hand, at most len of them
ReadLen(c, pos, len) ==
    LET ends == { e \in c.cuts \cup { c.total } : e > pos }
    IN  IF ends = {} THEN 0
        ELSE LET end == CHOOSE e \in ends : \A f \in ends : e <= f
             IN  IF end - pos < len THEN end - pos ELSE len

\* vec![0; len] after one read from position pos
ReadInto(c, pos, len) ==
    [i \in 1..len |-> IF i <= ReadLen(c, pos, len) THEN c.data[pos + i]
                                                    ELSE 0]

\* while buffer.ends_with(&[b'\0']) { buffer.pop(); }
RECURSIVE PopZeros(_)
PopZeros(buffer) ==
    IF buffer # <<>> /\ buffer[Len(buffer)] = 0
    THEN PopZeros(SubSeq(buffer, 1, Len(buffer) - 1))
    ELSE buffer

\* handle_connection, from the first read to the bytes the request is
\* built from
ReadRequest(c) ==
    LET first == ReadInto(c, 0, BuffSize)
        got == ReadLen(c, 0, BuffSize)
        \* the Content-Length header is found when the head was read whole
        new_buffer_size ==
            IF c.dynamic_resize /\ got >= c.header_size
            THEN c.content_length + c.header_size - BuffSize
            ELSE 0
        buffer == IF new_buffer_size > 0
                  THEN first \o ReadInto(c, got, new_buffer_size)
                  ELSE first
        raw == PopZeros(buffer)
    IN  [c EXCEPT !.pc = "request",
                  !.reads = IF new_buffer_size > 0 THEN 2 ELSE 1,
                  !.raw_data = raw,
                  !.body = SubSeq(raw, c.header_size + 1, Len(raw))]

\* the bytes of a request: a head of 'H', a body of 0x00 and 'a'
HeadBytes == { 72 }
BodyBytes == { 0, 97 }

ReadInit ==
    /\ path_patterns = TRUE
    /\ ignore_trailing_path_slash = FALSE
    /\ pm = NoPm
    /\ \E len \in 1..MaxBody, dyn \in BOOLEAN :
       \E cuts \in SUBSET (1..(HeadSize + len - 1)),
          head \in [1..HeadSize -> HeadBytes],
          body \in [1..len -> BodyBytes] :
          call = [pc |-> "stream", header_size |-> HeadSize,
                  content_length |-> len, total |-> HeadSize + len,
                  data |-> head \o body,
                  cuts |-> cuts, dynamic_resize |-> dyn, reads |-> 0,
                  raw_data |-> <<>>, body |-> <<>>]
    /\ routes = <<>> /\ middleware = <<>> /\ error_handler = 0
    /\ keep_alive = TRUE /\ settings = ServerNew /\ run = "config"
    /\ cycle = NoCycle /\ conn = NoConn

ReadStream ==
    /\ call.pc = "stream"
    /\ call' = ReadRequest(call)
    /\ UNCHANGED << path_patterns, ignore_trailing_path_slash, pm,
                    cfgvars, run, cycle, conn >>

ReadNext == ReadStream

SpecRead == ReadInit /\ [][ReadNext]_vars

\* ========================================================================
\* Properties
\* ========================================================================
Range(s) == { s[i] : i \in 1..Len(s) }
Served == cycle.done /\ cycle.read = "ok"
ReachedRoutes == Served /\ cycle.res.by.who # "middleware"
BothAccept(i, j, req) ==
    /\ i < j
    /\ RouteAccepts(routes[i], req)
    /\ RouteAccepts(routes[j], req)

\* C1: when two routes both accept a request's method and match its path,
\* the handler invoked is that of the later registered one (or of a still
\* later matching route), never that of the earlier one; in
\* handle_connection and in handle alike.
C1_LastRegisteredWins ==
    /\ Served =>
         \A i, j \in 1..Len(routes) : BothAccept(i, j, cycle.req) =>
             /\ i \notin Range(cycle.invoked)
             /\ ReachedRoutes =>
                  \E k \in j..Len(routes) : cycle.invoked = << k >>
    /\ conn.cur.req # NoReq =>
         \A i, j \in 1..Len(routes) : BothAccept(i, j, conn.cur.req) =>
             /\ i \notin Range(conn.cur.invoked)
             /\ \E k \in j..Len(routes) : conn.cur.invoked = << k >>

C1_Witness ==
    /\ ReachedRoutes
    /\ Len(routes) = 2
    /\ BothAccept(1, 2, cycle.req)
    /\ cycle.invoked = << 2 >>
    /\ cycle.res = HandlerResponse(2, cycle.req)

\* C2: a route with a concrete method is never run for a request with
\* another method, a route with method ANY is run for every method; after
\* (ANY, "*") then (GET, "/"), GET / runs the second and POST / the first.
AnyStarThenGetRoot ==
    /\ Len(routes) = 2
    /\ routes[1].method = "ANY" /\ routes[1].path.raw = <<"/", "*">>
    /\ routes[2].method = "GET" /\ routes[2].path.raw = sRoot

C2_MethodFilter ==
    ReachedRoutes =>
        /\ \A k \in Range(cycle.invoked) :
              routes[k].method \in { cycle.req.method, "ANY" }
        /\ \A j \in 1..Len(routes) :
              ( /\ routes[j].method = "ANY"
                /\ match_path(routes[j].path, cycle.req.path, TRUE).some )
                  => \E k \in j..Len(routes) : cycle.invoked = << k >>
        /\ (AnyStarThenGetRoot /\ cycle.req.path = sRoot) =>
              /\ cycle.req.method = "GET" => cycle.invoked = << 2 >>
              /\ cycle.req.method = "POST" => cycle.invoked = << 1 >>

C2_Witness ==
    /\ ReachedRoutes
    /\ AnyStarThenGetRoot
    /\ cycle.req.path = sRoot
    /\ cycle.req.method = "POST"
    /\ cycle.invoked = << 1 >>
    /\ cycle.res = HandlerResponse(1, cycle.req)

\* C3: a pattern of literal and {name} segments matches only a path with as
\* many segments as the pattern has parts; /greet/{name} matches /greet/Sam
\* with the one capture name = Sam, which path_pram finds, and matches
\* neither /greet/Sam/extra nor /greet.
Matched == pm.pc = "matched"
OnlyNormalOrPram ==
    \A i \in 1..Len(pm.compiled.parts) :
        pm.compiled.parts[i].kind \in { "Normal", "Pram" }

C3_SegmentCount ==
    Matched =>
        /\ (OnlyNormalOrPram /\ pm.result.some) =>
              Len(Split(pm.path)) = Len(pm.compiled.parts)
        /\ (path_patterns /\ pm.pattern = sGreetPat) =>
              /\ pm.path = sGreetSam =>
                    /\ pm.result = Some(<< << sName, sSam >> >>)
                    /\ path_pram(pm.result.val, sName) = Some(sSam)
              /\ pm.path \in { sGreetSamExtra, sGreet } => pm.result = None

C3_Witness ==
    /\ Matched
    /\ path_patterns
    /\ pm.pattern = sGreetPat
    /\ pm.path = sGreetSam
    /\ pm.result.some
    /\ path_pram(pm.result.val, sName) = Some(sSam)

\* C4: a pattern that ends in `*` after literal segments matches every path
\* that starts with those segments and goes on with one or more segments,
\* and the match has no captures.
TrailingStarOverLiterals ==
    LET parts == pm.compiled.parts
        segs == Split(pm.path)
        n == Len(parts)
    IN  /\ n >= 2
        /\ parts[n].kind = "Any"
        /\ Len(segs) >= n
        /\ \A i \in 1..(n - 1) :
              parts[i].kind = "Normal" /\ parts[i].val = segs[i]

C4_TrailingWildcard ==
    (Matched /\ path_patterns /\ TrailingStarOverLiterals) =>
        pm.result = Some(<<>>)

\* C5: a route handler that panics with a message m, with the default error
\* handler in place, gets the answer 500 with a body that contains m.
PanickedWithMessage ==
    /\ Served
    /\ cycle.panic.some
    /\ cycle.panic.val.payload \in { "str", "String" }

C5_DefaultPanicResponse ==
    (PanickedWithMessage /\ error_handler = 0) =>
        /\ cycle.res.status = 500
        /\ Contains(cycle.res.body, cycle.panic.val.msg)

\* C6: with an error handler installed, the last one installed, a request
\* whose route handler panics gets exactly what that handler returns for the
\* request in flight and the panic message.
C6_CustomErrorHandler ==
    (PanickedWithMessage /\ error_handler # 0) =>
        cycle.res = CustomErrorResponse(error_handler, cycle.req,
                                        cycle.panic.val.msg)

\* C7: when Request::from_socket fails, handle writes one response, the one
\* error_response gives for the error (400 for a parse error), runs no
\* handler, and returns: nothing more is read from that socket.
C7_AtParseFailure ==
    conn.cur.err # NoError =>
        /\ conn.pc = "returned"
        /\ conn.cur.res = error_response(conn.cur.err)
        /\ conn.cur.writes = << Write("conn", conn.cur.res.status) >>
        /\ conn.cur.err.type = "Parse" => conn.cur.res.status = 400
        /\ conn.cur.invoked = <<>>
        /\ Len(conn.log) >= 2
        /\ conn.log[Len(conn.log) - 1] = Event("read", conn.n)
        /\ conn.log[Len(conn.log)] = Event("write", conn.n)

C7_ParseFailure ==
    /\ []C7_AtParseFailure
    /\ [][conn.pc = "returned" => conn'.log \in { conn.log, <<>> }]_vars

C7_Witness ==
    /\ conn.pc = "returned"
    /\ conn.cur.err = Error("Parse", "NoSeparator")
    /\ conn.cur.res.status = 400
    /\ conn.n = 2

\* C8: the socket events of a connection
Finished == conn.pc \in { "loop", "ended", "closed" }
LogIndex(ev, n) ==
    { i \in 1..Len(conn.log) : conn.log[i] = Event(ev, n) }
Shutdowns == { i \in 1..Len(conn.log) : conn.log[i].ev = "shutdown" }
\* the requests before the last one were each read, then answered, and the
\* socket was not shut down before the last read
ServedInOrder ==
    \A m \in 1..(conn.n - 1) :
        /\ \E r \in LogIndex("read", m), w \in LogIndex("write", m),
              r2 \in LogIndex("read", m + 1) : r < w /\ w < r2
        /\ \A x \in Shutdowns : \A r2 \in LogIndex("read", m + 1) : r2 < x
ShutDownAfterResponse ==
    /\ conn.pc = "closed"
    /\ conn.log[Len(conn.log)] = Event("shutdown", conn.n)
    /\ \E w \in LogIndex("write", conn.n) : w < Len(conn.log)
KeepAliveAsked ==
    /\ keep_alive
    /\ conn.cur.connection # "close"
    /\ conn.cur.flag = "None"

\* C8 as stated: requests without `Connection: close` and without a
\* Close/End flag are served in order on one socket that is not shut down
\* between them, and a request with `Connection: close` has the socket shut
\* down after its response is written.
C8_KeepAliveOriginal ==
    /\ ServedInOrder
    /\ (Finished /\ KeepAliveAsked) => (conn.pc = "loop" /\ Shutdowns = {})
    /\ (Finished /\ conn.cur.connection = "close") => ShutDownAfterResponse

\* C8 amended: as above, but the socket of a request with
\* `Connection: close` is shut down only when the response flag is not End.
C8_KeepAlive ==
    /\ ServedInOrder
    /\ (Finished /\ KeepAliveAsked) => (conn.pc = "loop" /\ Shutdowns = {})
    /\ (Finished /\ conn.cur.connection = "close" /\ conn.cur.flag # "End")
          => ShutDownAfterResponse

C8_Witness ==
    /\ conn.pc = "closed"
    /\ conn.n = 2
    /\ conn.cur.connection = "close"
    /\ conn.log = << Event("read", 1), Event("write", 1), Event("read", 2),
                     Event("write", 2), Event("shutdown", 2) >>

\* C9: after a parsed request was dispatched and answered, the loop goes on
\* to the next request exactly when the flag is neither End nor Close, the
\* request asked for keep-alive and the server has keep-alive enabled.
C9_LoopExit ==
    Finished =>
        ( conn.pc = "loop" <=>
            /\ conn.cur.flag \notin { "End", "Close" }
            /\ conn.cur.keep_alive
            /\ keep_alive )

C9_Witness ==
    /\ conn.pc = "loop"
    /\ conn.cur.matched
    /\ conn.cur.out.sent

\* C10: the middleware closures run last attached first and before any
\* route; the first one that answers ends the request: no further
\* middleware and no route handler runs, and its response is the one sent.
C10_MiddlewareOrder ==
    Served =>
        LET n == Len(middleware)
            ran == cycle.mw
        IN  /\ Len(ran) <= n
            /\ \A p \in 1..Len(ran) : ran[p] = middleware[n + 1 - p]
            /\ \A p \in 1..(Len(ran) - 1) : cycle.mwOut[ran[p]] = "None"
            /\ IF Len(ran) > 0 /\ cycle.mwOut[ran[Len(ran)]] = "Some"
               THEN /\ cycle.invoked = <<>>
                    /\ cycle.res = MiddlewareResponse(ran[Len(ran)], cycle.req)
               ELSE /\ Len(ran) = n
                    /\ cycle.res.by.who # "middleware"

C10_Witness ==
    /\ Served
    /\ middleware = << 1, 2 >>
    /\ cycle.mwOut = << "Some", "Some" >>
    /\ cycle.mw = << 2 >>
    /\ cycle.invoked = <<>>
    /\ FirstRoute(cycle.req) # 0
    /\ cycle.res = MiddlewareResponse(2, cycle.req)


\* ------------------------------------------------------------------------
\* URL encoding
\* ------------------------------------------------------------------------
PrintableAscii == 32..126
NonAsciiBytes == 128..255
OutputAlphabet == ALLOWED_CHARS \cup { cPercent }
UpperHex == Digit \cup (65..70)
AnyHex == UpperHex \cup (97..102)

\* C11: decode(encode(s)) is Some(s) for every string s of printable ASCII
\* characters and of characters standing for the byte values 0x80..0xFF.
C11_RoundTrip ==
    ( /\ call.pc = "round"
      /\ \A k \in 1..Len(call.input) :
            call.input[k] \in PrintableAscii \cup NonAsciiBytes )
    => call.decoded = Some(call.input)

C11_Witness ==
    /\ call.pc = "round"
    /\ call.input = << cPercent, cPlus, 233 >>
    /\ call.encoded = << cPercent, 50, 53, cPercent, 50, 66,
                         cPercent, 69, 57 >>
    /\ call.decoded = Some(call.input)

\* the escape of one input char, read off the output at position p
EscapeAt(out, p, c) ==
    /\ p + 2 <= Len(out)
    /\ out[p] = cPercent
    /\ out[p + 1] \in UpperHex
    /\ out[p + 2] \in UpperHex
    /\ 16 * to_digit(out[p + 1]) + to_digit(out[p + 2]) = c % 256

\* out, from position p on, is the char-by-char image of in
RECURSIVE EncodedImage(_, _, _)
EncodedImage(in, out, p) ==
    IF in = <<>> THEN p = Len(out) + 1
    ELSE IF Head(in) \in ALLOWED_CHARS
         THEN /\ p <= Len(out)
              /\ out[p] = Head(in)
              /\ EncodedImage(Tail(in), out, p + 1)
         ELSE /\ EscapeAt(out, p, Head(in))
              /\ EncodedImage(Tail(in), out, p + 3)

\* C12: encode copies A-Z a-z 0-9 - . _ ~ and replaces every other char by
\* '%' and exactly two uppercase hex digits; the output holds no char
\* outside [A-Za-z0-9-._~%], and a space becomes %20.
C12_EncodeAlphabet ==
    call.pc = "encoded" =>
        /\ EncodedImage(call.input, call.encoded, 1)
        /\ \A k \in 1..Len(call.encoded) : call.encoded[k] \in OutputAlphabet
        /\ call.input = << cSpace >> => call.encoded = << cPercent, 50, 48 >>

C12_Witness ==
    /\ call.pc = "encoded"
    /\ call.input = << 65, cSpace, 301 >>
    /\ call.encoded = << 65, cPercent, 50, 48, cPercent, 50, 68 >>

MalformedEscape(s) ==
    \E k \in 1..Len(s) :
        /\ s[k] = cPercent
        /\ ~ ( /\ k + 2 <= Len(s)
               /\ s[k + 1] \in AnyHex
               /\ s[k + 2] \in AnyHex )

\* C13: decode returns None for every input in which some '%' is not
\* followed by exactly two hexadecimal digits.
C13_DecodeRejects ==
    (call.pc = "decoded" /\ MalformedEscape(call.input))
    => call.decoded = None


\* ------------------------------------------------------------------------
\* error_response
\* ------------------------------------------------------------------------
Responded(type) == call.pc = "responded" /\ call.err.type = type
HandleKind(kind) == Responded("Handle") /\ call.err.v.kind = kind

\* C14: error_response gives 400 for Stream(UnexpectedEof); 400 and a text
\* of its own for each of the eight ParseError variants; 404 and
\* "Cannot <method> <path>" for Handle(NotFound(method, path)); what the
\* server's error handler returns for (req, msg) for Handle(Panic(req, msg));
\* 500 and the text for Io(text).
C14_ErrorResponse ==
    /\ Responded("Stream") => call.res.status = 400
    /\ Responded("Parse") =>
          /\ call.res.status = 400
          /\ \A x \in ParseErrors \ { call.err.v } :
                error_response(Error("Parse", x)).body # call.res.body
    /\ HandleKind("NotFound") =>
          /\ call.res.status = 404
          /\ call.res.body = <<"Cannot ">> \o << call.err.v.method >>
                                 \o <<" ">> \o call.err.v.path
    /\ HandleKind("Panic") =>
          call.res = IF error_handler = 0
                     THEN DefaultErrorResponse(call.err.v.req, call.err.v.msg)
                     ELSE CustomErrorResponse(error_handler, call.err.v.req,
                                              call.err.v.msg)
    /\ Responded("Io") =>
          /\ call.res.status = 500
          /\ call.res.body = << call.err.v >>

C14_Witness ==
    /\ HandleKind("Panic")
    /\ error_handler = 2
    /\ call.err.v.msg = sBoom
    /\ call.res.by.who = "error_handler"
    /\ call.res.by.id = 2


\* ------------------------------------------------------------------------
\* Routing miss
\* ------------------------------------------------------------------------
NoRouteAccepts(req) ==
    \A j \in 1..Len(routes) : ~ RouteAccepts(routes[j], req)
CannotBody(req) == <<"Cannot ">> \o << req.method >> \o <<" ">> \o req.path

\* C15: when the routing stage is reached and no registered route accepts
\* the request's method and matches its path (the empty table included), no
\* route handler is invoked and the answer is 404 "Cannot <METHOD> <path>";
\* in handle_connection and in handle alike.
C15_RoutingMiss ==
    /\ (ReachedRoutes /\ NoRouteAccepts(cycle.req)) =>
          /\ cycle.invoked = <<>>
          /\ cycle.res.status = 404
          /\ cycle.res.body = CannotBody(cycle.req)
          /\ cycle.res.by.who = "engine"
    /\ (conn.cur.req # NoReq /\ NoRouteAccepts(conn.cur.req)) =>
          /\ conn.cur.invoked = <<>>
          /\ conn.cur.writes = << Write("conn", 404) >>
          /\ conn.cur.res.body = CannotBody(conn.cur.req)

C15_Witness ==
    /\ ReachedRoutes
    /\ Len(routes) = 2
    /\ cycle.req.method = "POST"
    /\ cycle.req.path = sRoot
    /\ NoRouteAccepts(cycle.req)
    /\ cycle.res.status = 404
    /\ cycle.res.body = << "Cannot ", "POST", " " >> \o sRoot


\* ------------------------------------------------------------------------
\* Headers
\* ------------------------------------------------------------------------
SameIgnoringCase(a, b) == to_ascii_lowercase(a) = to_ascii_lowercase(b)

\* C17: a lookup by name (Headers::has, get, get_header, Request::header)
\* succeeds whenever a stored header's name equals the requested name
\* ignoring ASCII case, for recognized and for Custom names alike.
C17_CaseInsensitiveLookup ==
    ( /\ call.pc = "looked"
      /\ \E i \in 1..Len(call.raw) :
            SameIgnoringCase(call.raw[i].name, call.name) )
    => /\ call.has
       /\ call.get.some
       /\ call.get_header.some
       /\ call.header.some


\* ------------------------------------------------------------------------
\* Response serialization
\* ------------------------------------------------------------------------
\* "Name: value\r\n" for each header of hs, in order
RECURSIVE WireHeaders(_)
WireHeaders(hs) ==
    IF hs = <<>> THEN <<>>
    ELSE WireHeaders(SubSeq(hs, 1, Len(hs) - 1))
         \o HeaderTypeDisplay(hs[Len(hs)].name) \o << ":", " " >>
         \o hs[Len(hs)].value \o << "\r", "\n" >>

WireStatusLine(res) ==
    << "H", "T", "T", "P", "/", "1", ".", "1", " " >>
    \o ToString(res.status) \o << " " >>
    \o (IF res.reason.some THEN res.reason.val
        ELSE reason_phrase(res.status))
    \o << "\r", "\n" >>

WireContentLength(n) ==
    << "C", "o", "n", "t", "e", "n", "t", "-", "L", "e", "n", "g", "t", "h",
       ":", " " >> \o ToString(n) \o << "\r", "\n" >>

\* C16: the bytes written are the status line (custom reason if set, else
\* the standard phrase), the handler-set headers in order, the server
\* default headers in order, Content-Length with the number of body bytes,
\* a blank line, and the body bytes unchanged.
C16_Serialization ==
    call.pc = "bytes" =>
        call.response =
            WireStatusLine(call.res)
            \o WireHeaders(call.res.headers)
            \o WireHeaders(call.default_headers)
            \o WireContentLength(Len(call.res.data))
            \o << "\r", "\n" >>
            \o call.res.data

C16_Witness ==
    /\ call.pc = "bytes"
    /\ call.res.status = 404
    /\ ~ call.res.reason.some
    /\ Len(call.res.headers) = 2
    /\ call.res.headers[1] # call.res.headers[2]
    /\ call.default_headers = << ServerHeader >>
    /\ Len(call.res.data) = 11
    /\ SubSeq(call.response, 1, 13) =
          << "H", "T", "T", "P", "/", "1", ".", "1", " ", "4", "0", "4", " " >>
    /\ SubSeq(call.response, Len(call.response) - 10, Len(call.response))
          = call.res.data


\* ------------------------------------------------------------------------
\* Handler failures
\* ------------------------------------------------------------------------
HandlerFailed == conn.cur.invoked # <<>> /\ conn.cur.out.result = "Err"

\* C18: a failure of a route handler never ends the thread serving the
\* connection: the failure becomes a 500-class response and the thread
\* goes on serving.
C18_FailureContained ==
    /\ (Served /\ cycle.panic.some) =>
          /\ cycle.res.status \in 500..599
          /\ cycle.res.by.who = "error_handler"
    /\ HandlerFailed =>
          /\ conn.pc # "panicked"
          /\ \E k \in 1..Len(conn.cur.writes) :
                /\ conn.cur.writes[k].who = "conn"
                /\ conn.cur.writes[k].status \in 500..599


\* ------------------------------------------------------------------------
\* Transport errors
\* ------------------------------------------------------------------------
\* C19: an accept, read, write or flush error on one connection never
\* stops the accept loop of Server::start.
C19_AcceptLoopSurvives == run # "returned"


\* ------------------------------------------------------------------------
\* Query
\* ------------------------------------------------------------------------
Looked == call.pc = "query" /\ call.looked.key # <<>>
\* no pair before position i has the key
FirstWith(i, key) ==
    /\ call.input[i][1] = key
    /\ \A j \in 1..(i - 1) : call.input[j][1] # key

\* C20: a query keeps its pairs in input order, duplicate keys included;
\* get, get_mut, get_query and get_query_mut return the first pair whose key
\* equals the requested key exactly, None when no pair has the key; has(k)
\* is true exactly when get(k) is Some.
C20_QueryLookup ==
    /\ call.pc = "query" => call.query = call.input
    /\ Looked =>
        LET k == call.looked.key
            l == call.looked
        IN  /\ \A i \in 1..Len(call.input) : FirstWith(i, k) =>
                  /\ l.get = Some(call.input[i][2])
                  /\ l.get_mut = Some(call.input[i][2])
                  /\ l.get_query = Some(call.input[i])
                  /\ l.get_query_mut = Some(call.input[i])
            /\ (\A i \in 1..Len(call.input) : call.input[i][1] # k) =>
                  /\ l.get = None /\ l.get_mut = None
                  /\ l.get_query = None /\ l.get_query_mut = None
            /\ l.has <=> l.get.some

C20_Witness ==
    /\ Looked
    /\ call.looked.key = << "f", "o", "o" >>
    /\ call.input = << << << "F", "o", "o" >>, << "1" >> >>,
                       << << "f", "o", "o" >>, << "2" >> >>,
                       << << "f", "o", "o" >>, << "1" >> >> >>
    /\ call.looked.get = Some(<< "2" >>)
    /\ call.looked.has


\* ------------------------------------------------------------------------
\* Post-middleware
\* ------------------------------------------------------------------------
\* the closures handle_connection called, in the order it called them: the
\* middleware loop, then the route handler, then the error handler
ClosureCalls ==
    [i \in 1..Len(cycle.mw) |-> [who |-> "middleware", id |-> cycle.mw[i]]]
    \o [i \in 1..Len(cycle.invoked) |->
           [who |-> "route", id |-> cycle.invoked[i]]]
    \o [i \in 1..Len(cycle.errcall) |->
           [who |-> "error_handler", id |-> cycle.errcall[i].handler]]

IsMiddlewareCall(c) == c.who = "middleware"
\* the middleware called once the routing stage was over
PostCalls ==
    LET after == SubSeq(ClosureCalls, Len(cycle.mw) + 1, Len(ClosureCalls))
        post == SelectSeq(after, IsMiddlewareCall)
    IN  [i \in 1..Len(post) |-> post[i].id]

\* C21: for every request that reaches dispatch, the post hooks of all
\* attached middleware run in reverse registration order after the route
\* handler produced its response, and after a routing miss.
C21_PostMiddleware ==
    ReachedRoutes =>
        PostCalls = [i \in 1..Len(middleware) |->
                        middleware[Len(middleware) + 1 - i]]


\* ------------------------------------------------------------------------
\* GuaranteedSend
\* ------------------------------------------------------------------------
\* C22: once a handler declared GuaranteedSend and handed the write to a
\* deferred task, the connection thread stays at the barrier (no next read,
\* no shutdown) until the task has signalled, and neither thread is left
\* waiting at the barrier alone.
C22_Rendezvous ==
    /\ conn.task \in { "spawned", "written" } => conn.pc = "barrier"
    /\ conn.task = "waiting" =>
          /\ conn.pc = "barrier"
          /\ BarrierPassed(conn.arrived)

\* C23: while the deferred task has not signalled the barrier, the
\* connection thread stays blocked on it: it reads no request, shuts no
\* socket down and does not return; there is no timeout.
C23_NoTimeout ==
    [][(conn.pc = "barrier" /\ conn.task = "spawned") =>
          /\ conn'.pc = "barrier"
          /\ conn'.n = conn.n
          /\ conn'.log \in { conn.log,
                             Append(conn.log, Event("write", conn.n)) }]_vars

C23_Witness ==
    /\ conn.pc = "barrier"
    /\ conn.task = "spawned"
    /\ conn.arrived = 1
    /\ conn.n = 2
    /\ conn.cur.writes = <<>>


\* ------------------------------------------------------------------------
\* The End flag
\* ------------------------------------------------------------------------
\* C24: when the response flag after the handler returned is End, the
\* connection thread writes nothing more for that request (no fallback
\* response) and leaves the loop without reading another request, whether
\* or not the handler had sent a response.
C24_EndStopsImmediately ==
    (conn.cur.invoked # <<>> /\ conn.cur.flag = "End") =>
        /\ conn.pc \in { "barrier", "ended" }
        /\ \A k \in 1..Len(conn.cur.writes) : conn.cur.writes[k].who # "conn"


\* ------------------------------------------------------------------------
\* Reading a request
\* ------------------------------------------------------------------------
\* C25: when the head plus the declared Content-Length exceed the initial
\* buffer, the body handed on is the whole declared body, however the peer
\* splits the bytes across socket reads.
C25_BodyComplete ==
    ( /\ call.pc = "request"
      /\ \A i \in 1..call.total : call.data[i] # 0
      /\ call.header_size + call.content_length > BuffSize )
    => call.body = SubSeq(call.data, call.header_size + 1, call.total)


\* C26: building a Query from a string in which a key or a value holds a
\* malformed percent escape fails with InvalidQuery.
MalformedPair(body) ==
    \E n \in 1..Len(SplitOn(body, 38)) :
        LET i == SplitOn(body, 38)[n]
        IN  \E k \in 1..Len(i) :
                /\ i[k] = 61
                /\ \A j \in 1..(k - 1) : i[j] # 61
                /\ \/ MalformedEscape(SubSeq(i, 1, k - 1))
                   \/ MalformedEscape(SubSeq(i, k + 1, Len(i)))

C26_InvalidQuery ==
    (call.pc = "parsed" /\ MalformedPair(call.body))
    => call.parsed = Error("Parse", "InvalidQuery")


\* C27 as stated: Header::from_string returns Ok only for a line with
\* exactly one ':' and Err(Parse(InvalidHeader)) for every other line.
C27_ExactlyOneColon ==
    call.pc = "parsed"
    => ( call.parsed.err = NoError
         <=> Cardinality({ k \in 1..Len(trim(call.line)) :
                               trim(call.line)[k] = ":" }) = 1 )

\* C27: Header::from_string returns Ok exactly for a line that holds at
\* least one ':' and Err(Parse(InvalidHeader)) for a line with none; on
\* success no ':' precedes the cut, the name is the trimmed text before
\* it and the value the trimmed text after it, later ':' included.
C27_HeaderLine ==
    call.pc = "parsed"
    => LET l == call.line
           colons == { k \in 1..Len(l) : l[k] = ":" }
       IN  /\ colons = {}
              => call.parsed.err = Error("Parse", "InvalidHeader")
           /\ colons # {}
              => /\ call.parsed.err = NoError
                 /\ \E k \in colons :
                      /\ \A j \in 1..(k - 1) : l[j] # ":"
                      /\ call.parsed.header.name
                           = from_str(trim(SubSeq(l, 1, k - 1)))
                      /\ call.parsed.header.value
                           = trim(SubSeq(l, k + 1, Len(l)))

\* a line whose value holds a second ':' was parsed
C27_Witness ==
    /\ call.pc = "parsed"
    /\ Cardinality({ k \in 1..Len(call.line) : call.line[k] = ":" }) = 2
    /\ call.parsed.err = NoError
    /\ \E k \in 1..Len(call.parsed.header.value) :
          call.parsed.header.value[k] = ":"


\* the (name, segment) pairs of the Pram parts, left to right
RECURSIVE CapturesFrom(_, _)
CapturesFrom(parts, segs) ==
    IF parts = <<>> \/ segs = <<>> THEN <<>>
    ELSE ( IF Head(parts).kind = "Pram"
           THEN << << Head(parts).val, Head(segs) >> >> ELSE <<>> )
         \o CapturesFrom(Tail(parts), Tail(segs))
Captures(r, req) == CapturesFrom(r.path.parts, Split(req.path))

\* C28: in a request cycle the path-parameter list is assigned at most
\* once, from the captures of the route whose handler is invoked, and the
\* handler is called with the request that already holds them; no capture
\* of a route that was tested and did not accept the request appears in
\* it, and a request that matched no route keeps an empty list.
C28_ParamsWrittenOnce ==
    /\ (cycle.done /\ cycle.read = "ok") =>
          /\ Len(cycle.pwrites) <= 1
          /\ cycle.invoked = <<>> =>
                cycle.pwrites = <<>> /\ cycle.req.path_params = <<>>
          /\ \A k \in 1..Len(routes) :
                cycle.invoked = << k >> =>
                   /\ cycle.pwrites =
                         << [route |-> k,
                             params |-> Captures(routes[k], cycle.req)] >>
                   /\ cycle.req.path_params = Captures(routes[k], cycle.req)
                   /\ cycle.res.by.req.path_params = cycle.req.path_params
    /\ conn.cur.req # NoReq =>
          /\ Len(conn.cur.pwrites) <= 1
          /\ conn.cur.invoked = <<>> =>
                conn.cur.pwrites = <<>> /\ conn.cur.req.path_params = <<>>
          /\ \A k \in 1..Len(routes) :
                conn.cur.invoked = << k >> =>
                   /\ conn.cur.pwrites =
                         << [route |-> k,
                             params |-> Captures(routes[k], conn.cur.req)] >>
                   /\ conn.cur.req.path_params
                         = Captures(routes[k], conn.cur.req)

\* POST /greet/Sam with routes ANY /greet/{name} and GET /greet/{name}:
\* the newer route's path matches and captures `name`, its method does
\* not; the older route is invoked and the list was assigned once
C28_Witness ==
    /\ cycle.done /\ cycle.read = "ok"
    /\ Len(routes) = 2
    /\ cycle.req.method = "POST"
    /\ cycle.req.path = sGreetSam
    /\ RouteAcceptsAnyMethod(routes[2], cycle.req)
    /\ ~RouteAccepts(routes[2], cycle.req)
    /\ cycle.invoked = << 1 >>
    /\ Len(cycle.pwrites) = 1
    /\ cycle.req.path_params = << << sName, sSam >> >>


ReferencePart(seg) ==
    IF seg = << "*" >> THEN [kind |-> "Any", val |-> <<>>]
    ELSE IF Len(seg) >= 2 /\ seg[1] = "{" /\ seg[Len(seg)] = "}"
         THEN [kind |-> "Pram", val |-> SubSeq(seg, 2, Len(seg) - 1)]
         ELSE [kind |-> "Normal", val |-> seg]

ReferenceMatch(parts, segs) ==
    IF Len(segs) # Len(parts) THEN None
    ELSE IF \E i \in 1..Len(parts) :
                parts[i].kind = "Normal" /\ parts[i].val # segs[i]
         THEN None
         ELSE Some(CapturesFrom(parts, segs))

C30_PlainMatching ==
    (~path_patterns /\ Matched) =>
        /\ pm.result.some <=> ( \/ pm.compiled.raw = pm.path
                                \/ pm.pattern = sStar )
        /\ pm.result.some => pm.result.val = <<>>


\* C31: the error handler is called at most once per request and only for
\* a route handler whose panic was caught; when the error handler itself
\* panics it is not called again, no response comes back and the panic
\* leaves the request handling: the accept loop is unwound.
ErrorHandlerOnce ==
    /\ Len(cycle.errcall) <= 1
    /\ cycle.errcall # <<>> =>
          /\ cycle.panic.some
          /\ Len(cycle.invoked) = 1
          /\ cycle.errcall[1].handler = error_handler
    /\ cycle.unwound <=> run = "panicked"
    /\ cycle.unwound =>
          /\ cycle.panic.some /\ cycle.panic.val.eh = "panic"
          /\ Len(cycle.errcall) = 1
          /\ cycle.res = NoResponse
          /\ ~cycle.done

C31_ErrorHandlerAsymmetry ==
    /\ []ErrorHandlerOnce
    /\ [][run = "panicked" => UNCHANGED vars]_vars

\* a custom error handler was called for a caught panic and panicked
C31_Witness ==
    /\ run = "panicked"
    /\ error_handler # 0
    /\ cycle.panic.some
    /\ Len(cycle.errcall) = 1
    /\ cycle.res = NoResponse


IsPrefix(s, t) == Len(s) <= Len(t) /\ SubSeq(t, 1, Len(s)) = s

\* C32: once serving has begun no step changes the route table, the
\* middleware list, the default headers, the error handler, the buffer
\* size or the timeout; before that, a step that changes the route table
\* or the middleware list appends one entry and keeps the existing ones
\* in place.
C32_ServingReadsOnly ==
    [][ /\ run # "config" =>
             /\ routes' = routes
             /\ middleware' = middleware
             /\ error_handler' = error_handler
             /\ settings' = settings
        /\ routes' # routes =>
             /\ run = "config"
             /\ Len(routes') = Len(routes) + 1
             /\ IsPrefix(routes, routes')
        /\ middleware' # middleware =>
             /\ run = "config"
             /\ Len(middleware') = Len(middleware) + 1
             /\ IsPrefix(middleware, middleware') ]_vars

\* a server with two routes, a middleware, a second default header and a
\* custom buffer size has answered a request and taken the next connection
C32_Witness ==
    /\ run = "start"
    /\ ~cycle.done
    /\ Len(routes) = 2
    /\ Len(middleware) >= 1
    /\ settings.default_headers = << sServer, sXa >>
    /\ settings.buff_size # ServerNew.buff_size


\* C33: a connection that waits for its next request eventually leaves the
\* loop of handle by a return (after a failed read, after End, after the
\* shutdown), unless a GuaranteedSend wait is pending.
C33_ConnectionEnds ==
    (conn.pc = "await")
        ~> (conn.pc \in { "returned", "ended", "closed", "barrier" })


Trimmed(s) == s = <<>> \/ (s[1] # " " /\ s[Len(s)] # " ")
NoColon(s) == \A i \in 1..Len(s) : s[i] # ":"
CameBack ==
    call.parsed = [err |-> NoError, header |-> call.original]

C35_Fallback501 ==
    ( /\ conn.cur.invoked # <<>>
      /\ ~conn.cur.out.sent
      /\ ~conn.cur.out.guaranteed )
    => /\ conn.cur.writes = << Write("conn", 501) >>
       /\ conn.cur.res.status = 501
       /\ conn.cur.res.body = << "No response was sent" >>


OwnWrites(cur) ==
    Cardinality({ k \in 1..Len(cur.writes) :
                      cur.writes[k].who \in { "conn", "handler" } })

\* C36: in a request cycle at most one route handler is invoked, and the
\* connection thread writes exactly one response for the request (the
\* handler's, the 501 fallback, the 404 or the response to a failed
\* read), or none when GuaranteedSend hands the write to a deferred task.
C36_OneResponse ==
    /\ cycle.done => Len(cycle.invoked) <= 1 /\ cycle.res # NoResponse
    /\ (conn.cur.req # NoReq \/ conn.cur.err # NoError) =>
          /\ Len(conn.cur.invoked) <= 1
          /\ OwnWrites(conn.cur) = IF conn.cur.out.guaranteed THEN 0 ELSE 1


ContentLengthAt(hs) ==
    { i \in 1..Len(hs) :
          to_ascii_lowercase(HeaderTypeDisplay(hs[i].name))
              = to_ascii_lowercase(sContentLength) }

\* C37: a serialized response has exactly one Content-Length header and
\* its value is the number of body bytes, also when the response's own
\* headers or the default headers hold a Content-Length already.
C37_SingleContentLength ==
    call.pc = "bytes" =>
        /\ Cardinality(ContentLengthAt(call.headers)) = 1
        /\ \A i \in ContentLengthAt(call.headers) :
              call.headers[i].value = ToString(Len(call.res.data))


\* C38: the raw data and the body of the request are the bytes the client
\* sent, trailing 0x00 bytes of the body included and no unused buffer
\* space added; stated for a request that arrives whole in the first read.
C38_BytesUnchanged ==
    ( /\ call.pc = "request"
      /\ call.total <= BuffSize
      /\ call.cuts = {} )
    => /\ call.raw_data = call.data
       /\ call.body = SubSeq(call.data, call.header_size + 1, call.total)


LiteralOnly(p) ==
    \A i \in 1..Len(Split(p)) :
        LET seg == Split(p)[i]
        IN  /\ seg # << "*" >>
            /\ ~(starts_with(seg, "{") /\ ends_with(seg, "}"))

\* C39: a route whose path p has literal segments only matches the
\* request path p itself, with or without a leading '/', with or without
\* a trailing '/', and with trailing-slash stripping on or off.
C39_LiteralMatchesItself ==
    (Matched /\ pm.pattern = pm.path /\ LiteralOnly(pm.pattern))
    => pm.result.some

====
